---- MODULE Spec2Model ----
(***************************************************************************)
(* Model of agent.py, the AI Merge Guard: one process run, from the        *)
(* __main__ dispatch to process exit (detection mode) or to the serving    *)
(* status server (--server).  The external collaborators (git via the     *)
(* GitPython wrapper, the Gemini client, Flask, rich) are modelled by the  *)
(* outcomes they can hand to agent.py: a value or a raised exception.      *)
(* write_report's own file I/O is taken to succeed.                        *)
(***************************************************************************)
EXTENDS Integers, Sequences, FiniteSets, TLC

\* ---------------------------------------------------------------- bounds
\* longest name-status diff (in lines) the git backend hands back
MaxDiffLen == 2
\* requests the status server answers before the model stops counting
MaxRequests == 2

\* ------------------------------------------------------------ diff lines
\* A line of `git diff --name-status` is kept as its status field (a
\* sequence of characters, so that startswith can look at the first one)
\* and the path fields that follow it, each separated by a tab.
R100 == <<"R", "1", "0", "0">>
StatusM == <<"M">>
StatusD == <<"D">>

Line(status, paths) == [status |-> status, paths |-> paths]

DiffLines ==
    { Line(R100, <<"a", "b">>),      \* R100<TAB>a<TAB>b
      Line(R100, <<"b", "a">>),      \* R100<TAB>b<TAB>a
      Line(R100, <<"a">>),           \* R100<TAB>a          (one path only)
      Line(StatusM, <<"a">>),        \* M<TAB>a
      Line(StatusM, <<"b">>),        \* M<TAB>b
      Line(StatusM, <<>>),           \* M                   (no path)
      Line(StatusD, <<"a">>) }       \* D<TAB>a

Paths == {"a", "b"}

SeqsUpTo(S, n) == UNION { [1..k -> S] : k \in 0..n }

\* str.splitlines() output the backend can produce for one diff
DiffOutputs == SeqsUpTo(DiffLines, MaxDiffLen)

\* line.startswith(c): the first character of the line, which is the first
\* character of the status field
StartsWith(line, c) == Len(line.status) > 0 /\ line.status[1] = c

\* line.split('\t'): the status field followed by the path fields
Split(line) == <<line.status>> \o line.paths

\* ------------------------------------------------------- detect_risky_moves
\* moved_files[old_path] = new_path on a Python dict, kept as the sequence
\* of its (key, value) items in insertion order: an existing key keeps its
\* place and takes the new value, a new key goes to the end.
DictSet(d, k, v) ==
    IF \E i \in 1..Len(d) : d[i][1] = k
    THEN [i \in 1..Len(d) |-> IF d[i][1] = k THEN <<k, v>> ELSE d[i]]
    ELSE Append(d, <<k, v>>)

\* the loop over pr_diff (lines 161-167)
RECURSIVE MovedFiles(_, _)
MovedFiles(lines, d) ==
    IF lines = <<>> THEN d
    ELSE LET line == Head(lines)
             parts == Split(line)
         IN MovedFiles(Tail(lines),
                       IF StartsWith(line, "R") /\ Len(parts) = 3
                       THEN DictSet(d, parts[2], parts[3])
                       ELSE d)

\* `_, path = line.split('\t')` raises ValueError unless there are exactly
\* two fields (line 171)
UnpackRaises(lines) ==
    \E i \in 1..Len(lines) :
        StartsWith(lines[i], "M") /\ Len(Split(lines[i])) # 2

\* the loop over main_diff (lines 168-172), when no unpacking raises
ModifiedInMain_AnyStatus(lines) ==
    { Split(lines[i])[2] : i \in { j \in 1..Len(lines) : Len(Split(lines[j])) = 2 } }

ModifiedInMain(lines) ==
    { Split(lines[i])[2] : i \in { j \in 1..Len(lines) : StartsWith(lines[j], "M") } }

Conflict(old, new) == [old_path |-> old, new_path |-> new]

\* mutant: the membership test looks at the new path
ConflictsOf_NewPath(moved, modified) ==
    LET kept == SelectSeq(moved, LAMBDA e : e[2] \in modified)
    IN [i \in 1..Len(kept) |-> Conflict(kept[i][1], kept[i][2])]

\* the loop over moved_files.items() (lines 174-177)
ConflictsOf(moved, modified) ==
    LET kept == SelectSeq(moved, LAMBDA e : e[1] \in modified)
    IN [i \in 1..Len(kept) |-> Conflict(kept[i][1], kept[i][2])]

\* ------------------------------------------------------------------ reports
MsgNoKey == "GEMINI_API_KEY environment variable not set!"
MsgRepo == "Error accessing git repository"
MsgFetch == "Error fetching origin"
MsgAnalyze == "Error analyzing repository"
MsgGemini == "Error calling Gemini API"

NoReport == [kind |-> "none", msg |-> "", conflicts |-> <<>>, narrative |-> FALSE]

\* generate_success_report()
generate_success_report ==
    [kind |-> "success", msg |-> "", conflicts |-> <<>>, narrative |-> FALSE]

\* generate_conflict_report(conflicts, gemini_analysis): one list item per
\* conflict and the Gemini text
generate_conflict_report(cs) ==
    [kind |-> "conflict", msg |-> "", conflicts |-> cs, narrative |-> TRUE]

\* generate_error_report(error_msg): the message and fixed text, nothing else
generate_error_report(m) ==
    [kind |-> "error", msg |-> m, conflicts |-> <<>>, narrative |-> FALSE]

\* --------------------------------------------------------------------- state
VARIABLES
    args_server,       \* args.server
    Flask,             \* "None" when the import failed (lines 10-13)
    API_KEY,           \* os.getenv("GEMINI_API_KEY"): "None", "" or a key
    pc,                \* where the run is
    trace,             \* the steps executed so far, in order
    errorAt,           \* the step that raised, "none" if none did
    merge_base,        \* the value get_merge_base returned, "None" before
    mb_cause,          \* why get_merge_base raised, "none" if it did not
    pr_diff,           \* lines of the merge_base..HEAD diff
    main_diff,         \* lines of the merge_base..origin/main diff
    moved_files,       \* the rename dict, as its items in order
    modified_in_main,  \* the set of modified paths
    conflicts,         \* the list detect_risky_moves returned
    report,            \* content of comment.txt
    writes,            \* number of write_report calls
    exitCode,          \* the process exit status, read when pc = "exited"
    served             \* requests answered by the status server

vars == <<args_server, Flask, API_KEY, pc, trace, errorAt, merge_base, mb_cause,
          pr_diff, main_diff, moved_files, modified_in_main, conflicts, report, writes,
          exitCode, served>>

detectVars == <<merge_base, mb_cause, pr_diff, main_diff, moved_files, modified_in_main,
                conflicts>>
envVars == <<args_server, Flask, API_KEY>>

Init ==
    /\ args_server \in BOOLEAN
    /\ Flask \in {"None", "Flask"}
    /\ API_KEY \in {"None", "", "key"}
    /\ pc = "start"
    /\ trace = <<>>
    /\ errorAt = "none"
    /\ merge_base = "None"
    /\ mb_cause = "none"
    /\ pr_diff = <<>>
    /\ main_diff = <<>>
    /\ moved_files = <<>>
    /\ modified_in_main = {}
    /\ conflicts = <<>>
    /\ report = NoReport
    /\ writes = 0
    /\ exitCode = 0
    /\ served = 0

\* write_report(message) followed by sys.exit(1): the error path of a step
Abort(step, msg) ==
    /\ errorAt' = step
    /\ report' = generate_error_report(msg)
    /\ writes' = writes + 1
    /\ exitCode' = 1
    /\ pc' = "exited"
    /\ trace' = trace \o <<step, "write", "exit">>

\* a step that completed and hands over to the next one
Proceed(step, next) ==
    /\ pc' = next
    /\ trace' = Append(trace, step)
    /\ UNCHANGED <<errorAt, report, writes, exitCode>>

\* mutant: main() runs whatever the flag says
Dispatch_AlwaysMain ==
    /\ pc = "start"
    /\ pc' = "configure"
    /\ UNCHANGED <<envVars, detectVars, trace, errorAt, report, writes,
                   exitCode, served>>

\* the __main__ block (lines 240-247)
Dispatch ==
    /\ pc = "start"
    /\ pc' = IF args_server THEN "run_server" ELSE "configure"
    /\ UNCHANGED <<envVars, detectVars, trace, errorAt, report, writes,
                   exitCode, served>>

\* run_server (lines 123-133), up to app.run listening
run_server ==
    /\ pc = "run_server"
    /\ IF Flask = "None"
       THEN /\ pc' = "exited"
            /\ exitCode' = 1
            /\ trace' = Append(trace, "exit")
       ELSE /\ pc' = "serving"
            /\ trace' = Append(trace, "serve")
            /\ UNCHANGED exitCode
    /\ UNCHANGED <<envVars, detectVars, errorAt, report, writes, served>>

\* the '/' route answering one request
home ==
    /\ pc = "serving"
    /\ served < MaxRequests
    /\ served' = served + 1
    /\ UNCHANGED <<envVars, detectVars, pc, trace, errorAt, report, writes,
                   exitCode>>

\* mutant: the report is written but the run goes on
configure_gemini_NoExit ==
    /\ pc = "configure"
    /\ IF API_KEY \in {"None", ""}
       THEN /\ report' = generate_error_report(MsgNoKey)
            /\ writes' = writes + 1
            /\ pc' = "open_repo"
            /\ trace' = trace \o <<"configure", "write">>
            /\ UNCHANGED <<errorAt, exitCode>>
       ELSE Proceed("configure", "open_repo")
    /\ UNCHANGED <<envVars, detectVars, served>>

\* configure_gemini (lines 139-145)
configure_gemini ==
    /\ pc = "configure"
    /\ IF API_KEY \in {"None", ""}
       THEN Abort("configure", MsgNoKey)
       ELSE Proceed("configure", "open_repo")
    /\ UNCHANGED <<envVars, detectVars, served>>

\* Repo(os.getcwd()) and its handler (lines 196-202)
OpenRepo ==
    /\ pc = "open_repo"
    /\ \E raised \in BOOLEAN :
          IF raised THEN Abort("open_repo", MsgRepo)
          ELSE Proceed("open_repo", "fetch")
    /\ UNCHANGED <<envVars, detectVars, served>>

\* mutant: a fetch error is swallowed
Fetch_Swallow ==
    /\ pc = "fetch"
    /\ \E raised \in BOOLEAN :
          /\ errorAt' = IF raised THEN "fetch" ELSE errorAt
          /\ pc' = "merge_base"
          /\ trace' = Append(trace, "fetch")
          /\ UNCHANGED <<report, writes, exitCode>>
    /\ UNCHANGED <<envVars, detectVars, served>>

\* repo.remotes.origin.fetch() and its handler (lines 204-211)
Fetch ==
    /\ pc = "fetch"
    /\ \E raised \in BOOLEAN :
          IF raised THEN Abort("fetch", MsgFetch)
          ELSE Proceed("fetch", "merge_base")
    /\ UNCHANGED <<envVars, detectVars, served>>

\* what can stop get_merge_base: repo.commit('origin/main') or
\* repo.commit('HEAD') raises on a name it cannot resolve; `git merge-base`
\* prints nothing and exits with status 1 when the histories share no
\* commit, which the git command wrapper raises as GitCommandError.
MergeBaseFailures == {"origin/main unknown", "HEAD unknown", "unrelated histories"}

\* mutant: empty merge-base output is returned like a commit id
get_merge_base_EmptyReturned ==
    /\ pc = "merge_base"
    /\ \E outcome \in MergeBaseFailures \cup {"ok"} :
          IF outcome \in {"origin/main unknown", "HEAD unknown"}
          THEN /\ mb_cause' = outcome
               /\ Abort("merge_base", MsgAnalyze)
               /\ UNCHANGED merge_base
          ELSE /\ mb_cause' = IF outcome = "ok" THEN mb_cause ELSE outcome
               /\ merge_base' = IF outcome = "ok" THEN "sha" ELSE ""
               /\ Proceed("merge_base", "diff_pr")
    /\ UNCHANGED <<envVars, pr_diff, main_diff, moved_files, modified_in_main,
                   conflicts, served>>

\* get_merge_base (lines 148-152) called at line 214, and the handler of
\* lines 216-220
get_merge_base ==
    /\ pc = "merge_base"
    /\ \E outcome \in MergeBaseFailures \cup {"ok"} :
          IF outcome \in MergeBaseFailures
          THEN /\ mb_cause' = outcome
               /\ Abort("merge_base", MsgAnalyze)
               /\ UNCHANGED merge_base
          ELSE /\ merge_base' = "sha"
               /\ Proceed("merge_base", "diff_pr")
               /\ UNCHANGED mb_cause
    /\ UNCHANGED <<envVars, pr_diff, main_diff, moved_files, modified_in_main,
                   conflicts, served>>

\* repo.git.diff('--name-status', f'{merge_base}..HEAD').splitlines()
\* (line 157), and the handler of lines 216-220
DiffPR ==
    /\ pc = "diff_pr"
    /\ \/ /\ Abort("diff_pr", MsgAnalyze)
          /\ UNCHANGED pr_diff
       \/ \E out \in DiffOutputs :
             /\ pr_diff' = out
             /\ Proceed("diff_pr", "diff_main")
    /\ UNCHANGED <<envVars, merge_base, mb_cause, main_diff, moved_files,
                   modified_in_main, conflicts, served>>

\* repo.git.diff('--name-status', f'{merge_base}..origin/main').splitlines()
\* (line 159), and the handler of lines 216-220
DiffMain ==
    /\ pc = "diff_main"
    /\ \/ /\ Abort("diff_main", MsgAnalyze)
          /\ UNCHANGED main_diff
       \/ \E out \in DiffOutputs :
             /\ main_diff' = out
             /\ Proceed("diff_main", "intersect")
    /\ UNCHANGED <<envVars, merge_base, mb_cause, pr_diff, moved_files,
                   modified_in_main, conflicts, served>>

\* the rest of detect_risky_moves (lines 161-178), the handler of lines
\* 216-220 and the `if conflicts:` of line 223
Intersect ==
    /\ pc = "intersect"
    /\ IF UnpackRaises(main_diff)
       THEN /\ Abort("intersect", MsgAnalyze)
            /\ UNCHANGED <<moved_files, modified_in_main, conflicts>>
       ELSE /\ moved_files' = MovedFiles(pr_diff, <<>>)
            /\ modified_in_main' = ModifiedInMain(main_diff)
            /\ conflicts' = ConflictsOf(moved_files', modified_in_main')
            /\ Proceed("intersect",
                       IF conflicts' # <<>> THEN "gemini" ELSE "report_clean")
    /\ UNCHANGED <<envVars, merge_base, mb_cause, pr_diff, main_diff, served>>

\* what the try block of lines 227-230 can meet: the Gemini text, an
\* exception from the Gemini call, or an exception from printing the text
\* as console markup
GeminiOutcomes == {"text", "api error", "markup error"}

\* mutant: the sys.exit(1) of line 235 is missing
AnalyzeWithGemini_NoExitCode ==
    /\ pc = "gemini"
    /\ \E outcome \in GeminiOutcomes :
          /\ errorAt' = CASE outcome = "text" -> errorAt
                          [] outcome = "api error" -> "gemini"
                          [] outcome = "markup error" -> "print"
          /\ report' = IF outcome = "text"
                       THEN generate_conflict_report(conflicts)
                       ELSE generate_error_report(MsgGemini)
    /\ writes' = writes + 1
    /\ exitCode' = 0
    /\ pc' = "exited"
    /\ trace' = trace \o <<"gemini", "write", "exit">>
    /\ UNCHANGED <<envVars, detectVars, served>>

\* the conflict branch of main (lines 223-235): analyze_with_gemini, the
\* report, sys.exit(1)
AnalyzeWithGemini ==
    /\ pc = "gemini"
    /\ \E outcome \in GeminiOutcomes :
          /\ errorAt' = CASE outcome = "text" -> errorAt
                          [] outcome = "api error" -> "gemini"
                          [] outcome = "markup error" -> "print"
          /\ report' = IF outcome = "text"
                       THEN generate_conflict_report(conflicts)
                       ELSE generate_error_report(MsgGemini)
    /\ writes' = writes + 1
    /\ exitCode' = 1
    /\ pc' = "exited"
    /\ trace' = trace \o <<"gemini", "write", "exit">>
    /\ UNCHANGED <<envVars, detectVars, served>>

\* mutant: the success path returns without a report
ReportClean_NoWrite ==
    /\ pc = "report_clean"
    /\ exitCode' = 0
    /\ pc' = "exited"
    /\ trace' = Append(trace, "exit")
    /\ UNCHANGED <<envVars, detectVars, errorAt, report, writes, served>>

\* the else branch of main (lines 236-238); main returns and the process
\* ends with status 0
ReportClean ==
    /\ pc = "report_clean"
    /\ report' = generate_success_report
    /\ writes' = writes + 1
    /\ exitCode' = 0
    /\ pc' = "exited"
    /\ trace' = trace \o <<"write", "exit">>
    /\ UNCHANGED <<envVars, detectVars, errorAt, served>>

Next ==
    \/ Dispatch
    \/ run_server
    \/ home
    \/ configure_gemini
    \/ OpenRepo
    \/ Fetch
    \/ get_merge_base
    \/ DiffPR
    \/ DiffMain
    \/ Intersect
    \/ AnalyzeWithGemini
    \/ ReportClean

Spec == Init /\ [][Next]_vars

\* ------------------------------------------------------------- vocabulary
InTrace(step) == \E i \in 1..Len(trace) : trace[i] = step

Count(step) == Cardinality({ i \in 1..Len(trace) : trace[i] = step })

Exited == pc = "exited"

\* a detection-mode run that has ended
DetectionRunEnded == ~args_server /\ Exited

\* detect_risky_moves has returned its list
DetectionDone == InTrace("intersect") /\ errorAt # "intersect"

GitSteps == {"open_repo", "fetch", "merge_base", "diff_pr", "diff_main"}

\* a record of the diff that says `p` was renamed: R status, old and new path
RenamedOn(diff, p) ==
    \E i \in 1..Len(diff) :
        /\ StartsWith(diff[i], "R")
        /\ Len(diff[i].paths) = 2
        /\ diff[i].paths[1] = p

\* a record of the diff that says `p` was content-modified: status exactly M
ModifiedOn(diff, p) ==
    \E i \in 1..Len(diff) : diff[i].status = StatusM /\ diff[i].paths = <<p>>

\* a record whose field count is wrong for its status
Malformed(line) ==
    \/ StartsWith(line, "R") /\ Len(line.paths) # 2
    \/ line.status = StatusM /\ Len(line.paths) # 1

HasMalformed(diff) == \E i \in 1..Len(diff) : Malformed(diff[i])

Reported(p) == \E i \in 1..Len(conflicts) : conflicts[i].old_path = p

\* position of key k in the rename dict, 0 if absent
KeyPos(k) ==
    IF \E i \in 1..Len(moved_files) : moved_files[i][1] = k
    THEN CHOOSE i \in 1..Len(moved_files) : moved_files[i][1] = k
    ELSE 0

\* ------------------------------------------------------------------ claims

\* C1: in every detection-mode run, whatever the outcome, the report file
\* is written exactly once, and the write comes before the process exit.
C1_ReportWrittenOnce ==
    /\ writes <= 1
    /\ Count("write") = writes
    /\ DetectionRunEnded =>
          /\ writes = 1
          /\ report.kind # "none"
          /\ \E i, j \in 1..Len(trace) :
                i < j /\ trace[i] = "write" /\ trace[j] = "exit"

C1_Witness ==
    DetectionRunEnded /\ report.kind = "success" /\ writes = 1 /\ pr_diff # <<>>

\* C2: a detection-mode run exits with 0 when detection found no conflict,
\* and with 1 when it found one (the narrative call failing or not) or when
\* a fatal error stopped it before detection completed.
C2_ExitCode ==
    DetectionRunEnded =>
        /\ (errorAt = "none" /\ conflicts = <<>>) => (DetectionDone /\ exitCode = 0)
        /\ conflicts # <<>> => exitCode = 1
        /\ errorAt \in ({"configure", "intersect"} \cup GitSteps) => exitCode = 1
        /\ exitCode \in {0, 1}

C2_Witness ==
    DetectionRunEnded /\ exitCode = 1 /\ errorAt = "gemini" /\ Len(conflicts) = 2

\* C3 (as claimed): when conflicts were found and the narrative call then
\* fails, the run exits with 1 and the report file lists every detected
\* conflict.
C3_ConflictsListedWhenNarrativeFails ==
    (DetectionRunEnded /\ errorAt = "gemini") =>
        /\ exitCode = 1
        /\ \A i \in 1..Len(conflicts) :
              \E j \in 1..Len(report.conflicts) : report.conflicts[j] = conflicts[i]

\* C4: with the credential absent, a detection-mode run writes an error
\* report about the missing credential and exits non-zero, and never
\* attempts a git operation or a narrative call.
C4_MissingCredential ==
    (~args_server /\ API_KEY \in {"None", ""}) =>
        /\ \A s \in GitSteps \cup {"intersect", "gemini"} : ~InTrace(s)
        /\ pc \notin {"start", "configure"} =>
              /\ Exited
              /\ exitCode # 0
              /\ report = generate_error_report(MsgNoKey)
              /\ trace = <<"configure", "write", "exit">>

C4_Witness ==
    ~args_server /\ API_KEY = "None" /\ Exited /\ report.msg = MsgNoKey

\* C5: the list detect_risky_moves returns holds exactly one conflict
\* {old_path, new_path} for each rename-map entry whose old path is in the
\* modified set, no other conflict, in rename-map insertion order; a rename
\* A -> B with only B modified on the target branch gives no conflict.
C5_ConflictList ==
    DetectionDone =>
        /\ \A i \in 1..Len(conflicts) :
              /\ conflicts[i].old_path \in modified_in_main
              /\ \E k \in 1..Len(moved_files) :
                    moved_files[k] = <<conflicts[i].old_path, conflicts[i].new_path>>
        /\ \A k \in 1..Len(moved_files) :
              moved_files[k][1] \in modified_in_main =>
                 /\ Cardinality({ i \in 1..Len(conflicts) :
                                    conflicts[i].old_path = moved_files[k][1] }) = 1
                 /\ \E i \in 1..Len(conflicts) :
                       conflicts[i] = Conflict(moved_files[k][1], moved_files[k][2])
        /\ \A i, j \in 1..Len(conflicts) :
              i < j => KeyPos(conflicts[i].old_path) < KeyPos(conflicts[j].old_path)
        /\ \A p \in Paths :
              (RenamedOn(pr_diff, p) /\ ~ModifiedOn(main_diff, p)) => ~Reported(p)

C5_Witness ==
    /\ DetectionDone
    /\ pr_diff = <<Line(R100, <<"b", "a">>), Line(R100, <<"a", "b">>)>>
    /\ conflicts = <<Conflict("b", "a"), Conflict("a", "b")>>

\* C6 (as claimed): a malformed line in either diff is skipped: the run is
\* not aborted by it, and the well-formed lines still give their conflicts.
C6_MalformedLineSkipped ==
    (InTrace("intersect") /\ (HasMalformed(pr_diff) \/ HasMalformed(main_diff))) =>
        /\ errorAt # "intersect"
        /\ \A p \in Paths :
              (RenamedOn(pr_diff, p) /\ ModifiedOn(main_diff, p)) => Reported(p)

\* C7 (as claimed): a conflict is reported for a path if and only if the
\* path was renamed on one side, PR branch or target branch, and
\* content-modified (status exactly M) on the other side.
C7_EitherSide ==
    DetectionDone =>
        \A p \in Paths :
            Reported(p) <=>
                \/ RenamedOn(pr_diff, p) /\ ModifiedOn(main_diff, p)
                \/ RenamedOn(main_diff, p) /\ ModifiedOn(pr_diff, p)

\* C7 (amended): when detection completes, a conflict is reported for a
\* path if and only if the path was renamed on the PR branch and
\* content-modified (status exactly M) on the target branch.
C7_PRRenameTargetModify ==
    DetectionDone =>
        \A p \in Paths :
            Reported(p) <=> (RenamedOn(pr_diff, p) /\ ModifiedOn(main_diff, p))

C7_Witness ==
    /\ DetectionDone
    /\ Reported("a")
    /\ RenamedOn(main_diff, "b") /\ ModifiedOn(pr_diff, "b") /\ ~Reported("b")

\* C8: when a ref cannot be resolved or the histories are unrelated, the
\* merge-base step fails and the run is over: no diff is computed, no
\* narrative call is made, an error report is written, the exit code is 1.
C8_MergeBaseFatal ==
    /\ merge_base \in {"None", "sha"}
    /\ mb_cause # "none" =>
          /\ Exited
          /\ exitCode = 1
          /\ errorAt = "merge_base"
          /\ report = generate_error_report(MsgAnalyze)
          /\ writes = 1
          /\ \A s \in {"diff_pr", "diff_main", "intersect", "gemini"} : ~InTrace(s)

C8_Witness ==
    mb_cause = "unrelated histories" /\ Exited /\ report.kind = "error"

\* C9: the two run modes exclude each other: with --server nothing of the
\* detection path happens (no credential check, git operation, narrative
\* call or report write), without it the server is never started.
C9_ModesExclusive ==
    /\ args_server =>
          /\ writes = 0
          /\ report = NoReport
          /\ \A i \in 1..Len(trace) : trace[i] \in {"serve", "exit"}
          /\ pc \in {"start", "run_server", "serving", "exited"}
    /\ ~args_server =>
          /\ ~InTrace("serve")
          /\ pc \notin {"run_server", "serving"}
          /\ served = 0

C9_Witness ==
    args_server /\ pc = "serving" /\ served > 0 /\ API_KEY = "None"

Rank(step) ==
    CASE step = "configure" -> 0
      [] step = "open_repo" -> 1
      [] step = "fetch" -> 2
      [] step = "merge_base" -> 3
      [] step = "diff_pr" -> 4
      [] step = "diff_main" -> 5
      [] step = "intersect" -> 6
      [] step = "gemini" -> 7
      [] step = "write" -> 8
      [] step = "exit" -> 9
      [] OTHER -> 10

\* C10: a detection-mode run executes its steps only in the order fetch,
\* merge base, two diffs, intersect, narrative call, report, exit; a step
\* runs only after all earlier ones completed; the first failing step goes
\* straight to an error report and exit; the narrative call needs a
\* non-empty conflict list; the report write is the last step before exit.
C10_PipelineOrder ==
    ~args_server =>
        /\ \A i, j \in 1..Len(trace) : i < j => Rank(trace[i]) < Rank(trace[j])
        /\ \A i \in 1..Len(trace) :
              Rank(trace[i]) <= 6 =>
                 \A r \in 0..(Rank(trace[i]) - 1) :
                    \E k \in 1..(i - 1) : Rank(trace[k]) = r
        /\ errorAt \in ({"configure", "intersect"} \cup GitSteps) =>
              \E i \in 1..Len(trace) :
                 /\ trace[i] = errorAt
                 /\ SubSeq(trace, i + 1, Len(trace)) = <<"write", "exit">>
        /\ InTrace("gemini") => (DetectionDone /\ conflicts # <<>>)
        /\ InTrace("write") =>
              /\ Len(trace) >= 2
              /\ trace[Len(trace) - 1] = "write"
              /\ trace[Len(trace)] = "exit"
        /\ InTrace("exit") => (Exited /\ trace[Len(trace)] = "exit")

C10_Witness ==
    trace = <<"configure", "open_repo", "fetch", "merge_base", "diff_pr",
              "diff_main", "intersect", "gemini", "write", "exit">>

====
